---- MODULE Spec2Model ----
(***************************************************************************)
(* Model of the selection engine of backup-files: ListFilesV2 (main.py),   *)
(* its exclude rules, the Stats tracker and the grouping of declarations   *)
(* into include/exclude blocks.                                            *)
(*                                                                         *)
(* A path is a sequence of names, <<"data", "a.txt">> is /data/a.txt.      *)
(* The filesystem is a function from paths to entries; Path.is_file,       *)
(* Path.is_dir, Path.resolve and os.walk are modelled by what they do on   *)
(* it (they follow symbolic links; os.walk lists a link to a directory     *)
(* among the directories and, with followlinks=False, does not enter it).  *)
(***************************************************************************)
EXTENDS Integers, Sequences, FiniteSets, TLC

\* Longest declaration list handed to the engine.
MaxDecls == 3

-----------------------------------------------------------------------------
(* Paths and the filesystem *)

D == <<"data">>
A == <<"data", "a.txt">>
B == <<"data", "b.tmp">>
S == <<"data", "subdir">>
C == <<"data", "subdir", "c.txt">>
N == <<"data", "node_modules">>
P == <<"data", "node_modules", "pkg.js">>
X == <<"data", "subdir", "x">>
Y == <<"data", "subdir", "y">>

Universe == {D, A, B, S, C, N, P, X, Y}

Absent == [kind |-> "absent", size |-> 0, target |-> <<>>]
Dir == [kind |-> "dir", size |-> 0, target |-> <<>>]
File(n) == [kind |-> "file", size |-> n, target |-> <<>>]
Fifo == [kind |-> "other", size |-> 0, target |-> <<>>]
Link(t) == [kind |-> "link", size |-> 0, target |-> t]

\* /data holding a.txt (10 bytes), b.tmp (5) and subdir/c.txt (20).
FsData ==
    [p \in Universe |->
        CASE p \in {D, S} -> Dir
          [] p = A -> File(10)
          [] p = B -> File(5)
          [] p = C -> File(20)
          [] OTHER -> Absent]

\* The same tree with /data/node_modules/pkg.js.
FsModules == [FsData EXCEPT ![N] = Dir, ![P] = File(7)]

\* ... and a fifo at /data/subdir/x.
FsFifo == [FsModules EXCEPT ![X] = Fifo]

\* ... or the links /data/subdir/x -> /data (a loop) and
\* /data/subdir/y -> /data/a.txt.
FsLinks == [FsModules EXCEPT ![X] = Link(D), ![Y] = Link(A)]

FsVariants == {FsData, FsModules, FsFifo, FsLinks}

VARIABLES
    fs,              \* the filesystem the engine runs on
    decls,           \* the ordered declaration list given to the engine
    include_blocks,  \* ListFilesV2.include_blocks
    exclude_blocks,  \* ListFilesV2.exclude_blocks
    files,           \* ListFilesV2.files
    dirs,            \* ListFilesV2.dirs
    stats,           \* ListFilesV2.stats
    pc,              \* position of the engine
    err,             \* the exception that aborted the run, "" if none
    blk,             \* list_files: index i of the include block (1-based)
    excludes,        \* list_files / walk: the excludes in use
    todo,            \* walk: include paths not yet expanded
    roots,           \* walk: the directory roots collected
    roots_left,      \* _walk: roots not yet walked
    visited_dirs,    \* _walk: visited_dirs
    stack,           \* os.walk: directories still to yield
    dirpath,         \* _walk: the directory being listed
    cur_files,       \* _walk: files of dirpath not yet tested
    hist,            \* history of the current walk (observation only)
    call,            \* the last add_file / remove_file call made from outside
    pattern,         \* the pattern tree handed to match
    match_path,      \* the path handed to match
    match_result     \* what match returned

vars == <<fs, decls, include_blocks, exclude_blocks, files, dirs, stats, pc,
          err, blk, excludes, todo, roots, roots_left, visited_dirs, stack,
          dirpath, cur_files, hist, call, pattern, match_path, match_result>>

Name(p) == p[Len(p)]
Parent(p) == SubSeq(p, 1, Len(p) - 1)

\* Path.resolve(): follow a symbolic link to its target.
Resolve(p) == IF fs[p].kind = "link" THEN fs[p].target ELSE p

\* Path.is_file() / Path.is_dir(): both follow symbolic links.
IsFile(p) == fs[Resolve(p)].kind = "file"
IsDir(p) == fs[Resolve(p)].kind = "dir"

\* os.path.islink
IsLink(p) == fs[p].kind = "link"

\* FsType.from_path
FsTypeFromPath(p) ==
    IF IsFile(p) THEN "file" ELSE IF IsDir(p) THEN "dir" ELSE "other"

\* FsType.matches_path
MatchesPath(fs_type, p) == fs_type = FsTypeFromPath(p)

\* The entries os.scandir lists in directory d.
Entries(d) == {p \in Universe : Len(p) > 1 /\ Parent(p) = d /\ fs[p].kind # "absent"}

\* os.walk: the `dirs` and `files` lists yielded for directory d.
WalkDirs(d) == {p \in Entries(d) : IsDir(p)}
WalkFiles(d) == Entries(d) \ WalkDirs(d)

\* os.walk(followlinks=False): the directories of `dirs` it then enters.
WalkRecurse(d) == {p \in WalkDirs(d) : ~IsLink(p)}

\* file.stat().st_size (stat follows links)
StSize(p) == fs[Resolve(p)].size

RECURSIVE SumSizes(_)
SumSizes(ps) ==
    IF ps = {} THEN 0
    ELSE LET p == CHOOSE q \in ps : TRUE IN StSize(p) + SumSizes(ps \ {p})

\* shutil.disk_usage(file).used: the used bytes of the volume holding file.
DiskUsed(p) == SumSizes({q \in Universe : fs[q].kind = "file"})

-----------------------------------------------------------------------------
(* Names and their characters (str.rpartition, str.removeprefix) *)

Chars(name) ==
    CASE name = "a.txt" -> <<"a", ".", "txt">>
      [] name = "b.tmp" -> <<"b", ".", "tmp">>
      [] name = "c.txt" -> <<"c", ".", "txt">>
      [] name = "pkg.js" -> <<"pkg", ".", "js">>
      [] name = ".tmp" -> <<".", "tmp">>
      [] name = "subdir/" -> <<"subdir", "/">>
      [] OTHER -> <<name>>

\* s.rpartition('.')[2]: what follows the last '.', all of s if there is none.
RPartitionExt(s) ==
    LET dots == {i \in 1..Len(s) : s[i] = "."} IN
    IF dots = {} THEN s
    ELSE LET last == CHOOSE i \in dots : \A j \in dots : j <= i
         IN SubSeq(s, last + 1, Len(s))

\* e.removeprefix('.')
RemovePrefixDot(s) == IF s # <<>> /\ s[1] = "." THEN Tail(s) ELSE s

-----------------------------------------------------------------------------
(* Declarations: includes and exclude rules *)

\* ExcludeDirMode (IntEnum)
NO == 0
CONTENTS == 1
ALL == 2

\* What a Python function returns when it ends without a return statement.
PyNone == -1

NoDecl == [kind |-> "", paths |-> <<>>, exts |-> {}, names |-> {},
           fs_type |-> "none", keep_self |-> FALSE, mode |-> NO]

\* An include declaration: get_paths() returns `paths`.
Include(paths) == [NoDecl EXCEPT !.kind = "Include", !.paths = paths]

\* FileExtExclude(*ext)
FileExtExclude(exts) == [NoDecl EXCEPT !.kind = "FileExtExclude", !.exts = exts]

\* NameExclude(*names, fs_type=..., keep_self=...); fs_type "none" is None.
NameExclude(names, fs_type, keep_self) ==
    [NoDecl EXCEPT !.kind = "NameExclude", !.names = names,
                   !.fs_type = fs_type, !.keep_self = keep_self]

\* A dir-exclude supplied by a collaborator: a subclass of IDirExclude that
\* overrides exclude_mode_for to answer `mode` for the directories it
\* excludes (should_exclude: the directory is named in `names`).
DirModeExclude(names, mode) ==
    [NoDecl EXCEPT !.kind = "DirModeExclude", !.names = names, !.mode = mode]

IsInclude(d) == d.kind = "Include"
IsExclude(d) == ~IsInclude(d)

\* isinstance(e, IFileExclude)
IsFileExclude(e) == e.kind \in {"FileExtExclude", "NameExclude"}

\* isinstance(e, IDirExclude)
IsDirExclude(e) == e.kind \in {"NameExclude", "DirModeExclude"}

\* FileExtExclude.__init__: self.extensions
Extensions(e) == {RemovePrefixDot(Chars(x)) : x \in e.exts}

\* FileExtExclude.should_exclude
FileExtShouldExclude(e, file) == RPartitionExt(Chars(Name(file))) \in Extensions(e)

\* NameExclude.should_exclude
NameShouldExclude(e, path) ==
    IF e.fs_type # "none" /\ ~MatchesPath(e.fs_type, path) THEN FALSE
    ELSE Name(path) \in e.names

\* e.should_exclude(path, fs_type)
ShouldExclude(e, path) ==
    CASE e.kind = "FileExtExclude" -> FileExtShouldExclude(e, path)
      [] e.kind = "NameExclude" -> NameShouldExclude(e, path)
      [] OTHER -> Name(path) \in e.names

\* IDirExclude.should_keep_self
ShouldKeepSelf(e) == e.keep_self

\* IDirExclude.exclude_mode_for as NameExclude inherits it: it returns NO when
\* should_exclude is false and otherwise ends without a return statement.
InheritedExcludeModeFor(e, path) ==
    IF ~ShouldExclude(e, path) THEN NO ELSE PyNone

\* e.exclude_mode_for(path, FsType.DIR)
ExcludeModeFor(e, path) ==
    IF e.kind = "DirModeExclude"
    THEN (IF ShouldExclude(e, path) THEN e.mode ELSE NO)
    ELSE InheritedExcludeModeFor(e, path)

\* exclude_contents comparing against ALL.
ExcludeContents_OnlyAll(mode) == mode >= ALL

\* ExcludeDirMode.exclude_contents / exclude_self
ExcludeContents(mode) == mode >= CONTENTS
ExcludeSelf(mode) == mode >= ALL

Max(a, b) == IF b > a THEN b ELSE a

\* should_exclude_file asking the dir-excludes instead of the file-excludes.
ShouldExcludeFile_DirRules(excl, file) ==
    \E k \in 1..Len(excl) : excl[k].kind = "DirModeExclude" /\ ShouldExclude(excl[k], file)

\* ListFilesV2.should_exclude_file
ShouldExcludeFile(excl, file) ==
    \E k \in 1..Len(excl) : IsFileExclude(excl[k]) /\ ShouldExclude(excl[k], file)

\* The loop of ListFilesV2.get_exclude_mode from index k on with the running
\* `result`. max(result, None) raises TypeError.
RECURSIVE ExcludeModeLoop(_, _, _, _)
ExcludeModeLoop(excl, path, k, result) ==
    IF k > Len(excl) THEN [raised |-> FALSE, result |-> result]
    ELSE IF ~IsDirExclude(excl[k]) THEN ExcludeModeLoop(excl, path, k + 1, result)
    ELSE LET m == ExcludeModeFor(excl[k], path) IN
         IF m = PyNone THEN [raised |-> TRUE, result |-> result]
         ELSE LET r == Max(result, m) IN
              IF r = ALL THEN [raised |-> FALSE, result |-> r]
              ELSE ExcludeModeLoop(excl, path, k + 1, r)

\* ListFilesV2.get_exclude_mode
GetExcludeMode(excl, path) == ExcludeModeLoop(excl, path, 1, NO)

-----------------------------------------------------------------------------
(* Stats *)

NoFunction == [x \in {} |-> 0]

\* Stats.__init__
NewStats == [n_files |-> 0, n_dirs |-> 0, bytes_to_copy_ls |-> 0,
             bytes_to_copy_du |-> 0, size_cache |-> NoFunction]

\* Stats._calc_size
CalcSize(file) == <<StSize(file), DiskUsed(file)>>

\* Stats.lookup_sizes: the sizes, computed and cached on a miss.
LookupSizes(st, file) ==
    IF file \in DOMAIN st.size_cache THEN st.size_cache[file] ELSE CalcSize(file)

CacheAfterLookup(st, file) ==
    IF file \in DOMAIN st.size_cache THEN st.size_cache
    ELSE (file :> CalcSize(file)) @@ st.size_cache

\* Stats.add_file
StatsAddFile(st, file) ==
    [st EXCEPT !.n_files = @ + 1,
               !.bytes_to_copy_ls = @ + LookupSizes(st, file)[1],
               !.bytes_to_copy_du = @ + LookupSizes(st, file)[2],
               !.size_cache = CacheAfterLookup(st, file)]

\* Stats.remove_file
StatsRemoveFile(st, file) ==
    [st EXCEPT !.n_files = @ - 1,
               !.bytes_to_copy_ls = @ - LookupSizes(st, file)[1],
               !.bytes_to_copy_du = @ - LookupSizes(st, file)[2],
               !.size_cache = CacheAfterLookup(st, file)]

\* Stats.add_dir
StatsAddDir(st, path) == [st EXCEPT !.n_dirs = @ + 1]

\* add_file as ListPaths.add_file has it: no test of the file set.
AddFile_Unguarded(fl, st, file) ==
    [files |-> fl \cup {file}, stats |-> StatsAddFile(st, file)]

\* ListFilesV2.add_file: the files and stats after the call.
AddFile(fl, st, file) ==
    IF file \in fl THEN [files |-> fl, stats |-> st]
    ELSE [files |-> fl \cup {file}, stats |-> StatsAddFile(st, file)]

\* ListFilesV2.add_dir_only: the dirs and stats after the call.
AddDirOnly(ds, st, path) ==
    IF path \notin ds THEN [dirs |-> ds, stats |-> st]
    ELSE [dirs |-> ds \cup {path}, stats |-> StatsAddDir(st, path)]

\* remove_file without the test of the file set.
RemoveFile_Unguarded(fl, st, file) ==
    [files |-> fl \ {file}, stats |-> StatsRemoveFile(st, file)]

\* ListFilesV2.remove_file: the files and stats after the call.
RemoveFile(fl, st, file) ==
    IF file \notin fl THEN [files |-> fl, stats |-> st]
    ELSE [files |-> fl \ {file}, stats |-> StatsRemoveFile(st, file)]

-----------------------------------------------------------------------------
(* Grouping of the declaration list into blocks *)

Key(d) == IF IsInclude(d) THEN "include" ELSE "exclude"

\* py_util.group_by = itertools.groupby: the maximal runs of equal key.
RECURSIVE GroupBy(_)
GroupBy(s) ==
    IF s = <<>> THEN <<>>
    ELSE LET rest == GroupBy(Tail(s)) IN
         IF rest # <<>> /\ rest[1].key = Key(Head(s))
         THEN <<[key |-> Key(Head(s)), items |-> <<Head(s)>> \o rest[1].items]>>
              \o Tail(rest)
         ELSE <<[key |-> Key(Head(s)), items |-> <<Head(s)>>]>> \o rest

\* Construction that accepts any declaration list.
StartsWithInclude_Unchecked(groups) == TRUE

\* A declaration list is accepted only if its first block is an include block.
StartsWithInclude(groups) == groups = <<>> \/ groups[1].key = "include"

\* The blocks of one kind, in order: i0, e0, i1, e1, ..., in[, en].
BlocksOf(groups, key) ==
    LET picked == SelectSeq(groups, LAMBDA g : g.key = key)
    IN [k \in 1..Len(picked) |-> picked[k].items]

\* py_util.flatten on a list of lists
RECURSIVE Flatten(_)
Flatten(ls) == IF ls = <<>> THEN <<>> ELSE Head(ls) \o Flatten(Tail(ls))

\* list_files taking every exclude block, whatever the index.
ExcludesBelow_AllBlocks(i) == Flatten(exclude_blocks)

\* list_files: flatten(self.exclude_blocks[i:]), i counted from 1 here.
ExcludesBelow(i) == Flatten(SubSeq(exclude_blocks, i, Len(exclude_blocks)))

\* walk: the paths of all includes of a block, in the order they are expanded.
IncludePaths(includes) == Flatten([k \in 1..Len(includes) |-> includes[k].paths])

-----------------------------------------------------------------------------
(* The declarations the model draws from *)

DeclPool ==
    { Include(<<D>>),
      Include(<<S, D>>),
      Include(<<B>>),
      Include(<<X>>),
      FileExtExclude({".tmp"}),
      NameExclude({"node_modules"}, "dir", FALSE),
      NameExclude({"node_modules"}, "dir", TRUE),
      NameExclude({"a.txt"}, "none", FALSE),
      DirModeExclude({"node_modules"}, CONTENTS),
      DirModeExclude({"subdir"}, ALL) }

DeclLists == UNION {[1..n -> DeclPool] : n \in 0..MaxDecls}

ZeroCount == [p \in Universe |-> 0]

\* The history of one walk: how often os.walk yielded each directory, how
\* often its exclude mode was computed, its files were listed and its
\* subdirectories entered; the modes computed; the files tested; the file
\* set when the walk began and the files added as include roots.
NewHist(fl) ==
    [yielded |-> ZeroCount, visits |-> ZeroCount, listed |-> ZeroCount,
     descended |-> ZeroCount, modes |-> {}, tested |-> {},
     files0 |-> fl, root_files |-> {}]

\* No call made yet / no pattern given.
NoCall == [op |-> "", file |-> <<>>, was_in |-> FALSE, files |-> {}, stats |-> NewStats]
NoPattern == [kind |-> "", chars |-> <<>>, fs_type |-> {}, children |-> <<>>]

Init ==
    /\ fs \in FsVariants
    /\ decls \in DeclLists
    /\ include_blocks = <<>>
    /\ exclude_blocks = <<>>
    /\ files = {}
    /\ dirs = {}
    /\ stats = NewStats
    /\ pc = "init"
    /\ err = ""
    /\ blk = 1
    /\ excludes = <<>>
    /\ todo = <<>>
    /\ roots = {}
    /\ roots_left = {}
    /\ visited_dirs = {}
    /\ stack = <<>>
    /\ dirpath = <<>>
    /\ cur_files = {}
    /\ hist = NewHist({})
    /\ call = NoCall
    /\ pattern = NoPattern
    /\ match_path = <<>>
    /\ match_result = ""

walkLocals == <<todo, roots, roots_left, visited_dirs, stack, dirpath, cur_files>>
outside == <<call, pattern, match_path, match_result>>
config == <<fs, decls, include_blocks, exclude_blocks, outside>>

\* Construction of the engine from the declaration list: group into blocks,
\* reject a list whose first block is an exclude block.
Construct ==
    /\ pc = "init"
    /\ LET groups == GroupBy(decls) IN
       IF StartsWithInclude(groups)
       THEN /\ include_blocks' = BlocksOf(groups, "include")
            /\ exclude_blocks' = BlocksOf(groups, "exclude")
            /\ pc' = "list"
            /\ err' = err
       ELSE /\ pc' = "rejected"
            /\ err' = "ValueError"
            /\ UNCHANGED <<include_blocks, exclude_blocks>>
    /\ UNCHANGED <<fs, decls, files, dirs, stats, blk, excludes, walkLocals, hist,
                   outside>>

\* list_files: the next include block; walk() begins with its includes and
\* the excludes below it.
ListFiles ==
    /\ pc = "list"
    /\ IF blk > Len(include_blocks)
       THEN /\ pc' = "done"
            /\ UNCHANGED <<excludes, todo, roots, hist>>
       ELSE /\ excludes' = ExcludesBelow(blk)
            /\ todo' = IncludePaths(include_blocks[blk])
            /\ roots' = {}
            /\ hist' = NewHist(files)
            /\ pc' = "roots"
    /\ UNCHANGED <<config, files, dirs, stats, err, blk, roots_left,
                   visited_dirs, stack, dirpath, cur_files>>

\* walk: one path of an include: a file is added, a directory becomes a root,
\* anything else fails the assertion.
ExpandRoot ==
    /\ pc = "roots"
    /\ todo # <<>>
    /\ LET p == Head(todo) IN
       IF IsFile(p)
       THEN /\ files' = AddFile(files, stats, p).files
            /\ stats' = AddFile(files, stats, p).stats
            /\ hist' = [hist EXCEPT !.root_files = @ \cup {p}]
            /\ todo' = Tail(todo)
            /\ UNCHANGED <<roots, pc, err>>
       ELSE IF IsDir(p)
       THEN /\ roots' = roots \cup {p}
            /\ todo' = Tail(todo)
            /\ UNCHANGED <<files, stats, hist, pc, err>>
       ELSE /\ pc' = "error"
            /\ err' = "AssertionError"
            /\ UNCHANGED <<files, stats, hist, todo, roots>>
    /\ UNCHANGED <<config, dirs, blk, excludes, roots_left, visited_dirs,
                   stack, dirpath, cur_files>>

\* walk calls _walk(roots, list(excludes)).
EnterWalk ==
    /\ pc = "roots"
    /\ todo = <<>>
    /\ visited_dirs' = {}
    /\ roots_left' = roots
    /\ stack' = <<>>
    /\ pc' = "walk"
    /\ UNCHANGED <<config, files, dirs, stats, err, blk, excludes, todo, roots,
                   dirpath, cur_files, hist>>

\* _walk: the next root of the set (in any order); os.walk starts at the
\* resolved root.
NextRoot ==
    /\ pc = "walk"
    /\ stack = <<>>
    /\ \E root \in roots_left :
         /\ roots_left' = roots_left \ {root}
         /\ IF IsDir(root)
            THEN /\ stack' = <<Resolve(root)>>
                 /\ UNCHANGED <<pc, err>>
            ELSE /\ pc' = "error"
                 /\ err' = "AssertionError"
                 /\ UNCHANGED stack
    /\ UNCHANGED <<config, files, dirs, stats, blk, excludes, todo, roots,
                   visited_dirs, dirpath, cur_files, hist>>

\* _walk without the visited_dirs test.
AlreadyVisited_Never(d, visited) == FALSE

\* dirpath in visited_dirs
AlreadyVisited(d, visited) == d \in visited

\* _walk: os.walk yields the next directory. A visited one is skipped with
\* its subdirectories; otherwise its exclude mode decides whether it is
\* added and whether its contents are walked.
VisitDir ==
    /\ pc = "walk"
    /\ stack # <<>>
    /\ LET d == Resolve(Head(stack))
           h1 == [hist EXCEPT !.yielded[d] = @ + 1]
       IN
       IF AlreadyVisited(d, visited_dirs)
       THEN /\ stack' = Tail(stack)
            /\ hist' = h1
            /\ UNCHANGED <<visited_dirs, dirs, stats, pc, err, dirpath, cur_files>>
       ELSE LET got == GetExcludeMode(excludes, d)
                excl_mode == got.result
                h2 == [h1 EXCEPT !.visits[d] = @ + 1]
            IN
            /\ visited_dirs' = visited_dirs \cup {d}
            /\ IF got.raised
               THEN /\ pc' = "error"
                    /\ err' = "TypeError"
                    /\ hist' = h2
                    /\ UNCHANGED <<dirs, stats, stack, dirpath, cur_files>>
               ELSE LET added == IF ~ExcludeSelf(excl_mode)
                                 THEN AddDirOnly(dirs, stats, d)
                                 ELSE [dirs |-> dirs, stats |-> stats]
                        h3 == [h2 EXCEPT !.modes = @ \cup {<<d, excl_mode>>}]
                    IN
                    /\ dirs' = added.dirs
                    /\ stats' = added.stats
                    /\ stack' = Tail(stack)
                    /\ err' = err
                    /\ IF ExcludeContents(excl_mode)
                       THEN /\ hist' = h3
                            /\ UNCHANGED <<pc, dirpath, cur_files>>
                       ELSE /\ hist' = [h3 EXCEPT !.listed[d] = @ + 1]
                            /\ dirpath' = d
                            /\ cur_files' = WalkFiles(d)
                            /\ pc' = "files"
    /\ UNCHANGED <<config, files, blk, excludes, todo, roots, roots_left>>

\* _walk: one file of the directory (os.walk lists them in any order).
TestFile ==
    /\ pc = "files"
    /\ \E filepath \in cur_files :
         /\ cur_files' = cur_files \ {filepath}
         /\ IF ~IsFile(filepath)
            THEN /\ pc' = "error"
                 /\ err' = "AssertionError"
                 /\ UNCHANGED <<files, stats, hist>>
            ELSE /\ hist' = [hist EXCEPT !.tested = @ \cup {filepath}]
                 /\ IF ~ShouldExcludeFile(excludes, filepath)
                    THEN /\ files' = AddFile(files, stats, filepath).files
                         /\ stats' = AddFile(files, stats, filepath).stats
                    ELSE UNCHANGED <<files, stats>>
                 /\ UNCHANGED <<pc, err>>
    /\ UNCHANGED <<config, dirs, blk, excludes, todo, roots, roots_left,
                   visited_dirs, stack, dirpath>>

\* The orders in which os.walk may enter a set of directories.
Orders(ds) == {o \in [1..Cardinality(ds) -> ds] : \A d \in ds : \E k \in DOMAIN o : o[k] = d}

\* os.walk: after the files of dirpath, its subdirectories are entered
\* (depth first, before the directories that were already waiting).
Descend ==
    /\ pc = "files"
    /\ cur_files = {}
    /\ \E o \in Orders(WalkRecurse(dirpath)) : stack' = o \o stack
    /\ hist' = [hist EXCEPT !.descended[dirpath] = @ + 1]
    /\ pc' = "walk"
    /\ UNCHANGED <<config, files, dirs, stats, err, blk, excludes, todo, roots,
                   roots_left, visited_dirs, dirpath, cur_files>>

\* _walk and walk return; list_files goes on to the next block.
WalkReturn ==
    /\ pc = "walk"
    /\ stack = <<>>
    /\ roots_left = {}
    /\ blk' = blk + 1
    /\ pc' = "list"
    /\ UNCHANGED <<config, files, dirs, stats, err, excludes, walkLocals, hist>>

Next ==
    \/ Construct
    \/ ListFiles
    \/ ExpandRoot
    \/ EnterWalk
    \/ NextRoot
    \/ VisitDir
    \/ TestFile
    \/ Descend
    \/ WalkReturn

Spec == Init /\ [][Next]_vars

-----------------------------------------------------------------------------
(* add_file and remove_file called from outside on a new engine *)

InitCalls ==
    /\ fs \in FsVariants
    /\ decls = <<>>
    /\ include_blocks = <<>>
    /\ exclude_blocks = <<>>
    /\ files = {}
    /\ dirs = {}
    /\ stats = NewStats
    /\ pc = "calls"
    /\ err = ""
    /\ blk = 1
    /\ excludes = <<>>
    /\ todo = <<>>
    /\ roots = {}
    /\ roots_left = {}
    /\ visited_dirs = {}
    /\ stack = <<>>
    /\ dirpath = <<>>
    /\ cur_files = {}
    /\ hist = NewHist({})
    /\ call = NoCall
    /\ pattern = NoPattern
    /\ match_path = <<>>
    /\ match_result = ""

notCalls == <<fs, decls, include_blocks, exclude_blocks, dirs, pc, err, blk,
              excludes, walkLocals, hist, pattern, match_path, match_result>>

\* The paths add_file and remove_file are called with: files (is_file()).
CallPaths == {p \in Universe : IsFile(p)}

\* ListFilesV2.add_file(file)
CallAddFile ==
    /\ pc = "calls"
    /\ \E file \in CallPaths :
         /\ files' = AddFile(files, stats, file).files
         /\ stats' = AddFile(files, stats, file).stats
         /\ call' = [op |-> "add_file", file |-> file, was_in |-> file \in files,
                     files |-> files, stats |-> stats]
    /\ UNCHANGED notCalls

\* ListFilesV2.remove_file(file)
CallRemoveFile ==
    /\ pc = "calls"
    /\ \E file \in CallPaths :
         /\ files' = RemoveFile(files, stats, file).files
         /\ stats' = RemoveFile(files, stats, file).stats
         /\ call' = [op |-> "remove_file", file |-> file, was_in |-> file \in files,
                     files |-> files, stats |-> stats]
    /\ UNCHANGED notCalls

NextCalls ==
    \/ CallAddFile
    \/ CallRemoveFile

SpecCalls == InitCalls /\ [][NextCalls]_vars

-----------------------------------------------------------------------------
(* Pattern trees (patterns.py) *)

\* Most children a branching pattern node is given.
MaxChildren == 2

\* FsTypeFlag: a flag is the set of its bits, `&` is intersection and a flag
\* is true when it is not empty. {} as an argument stands for None.
FLAG_FILE == {"file"}
FLAG_DIR == {"dir"}
FLAG_BOTH == FLAG_FILE \cup FLAG_DIR

\* AbstractPattern._get_fs_type, given that the assertion "no children in a
\* file-only pattern" holds.
GetFsType(fs_type, children) ==
    IF fs_type # {} THEN fs_type
    ELSE IF Len(children) > 0 THEN FLAG_DIR
    ELSE FLAG_BOTH

\* name.endswith('/') and name.removesuffix('/')
EndsWithSlash(s) == s # <<>> /\ s[Len(s)] = "/"
RemoveSuffixSlash(s) == IF EndsWithSlash(s) THEN SubSeq(s, 1, Len(s) - 1) ELSE s

\* SingleNamePattern.__init__
SingleNamePattern(name, fs_type, children) ==
    LET slash == fs_type = {} /\ EndsWithSlash(Chars(name)) IN
    [kind |-> "SingleNamePattern",
     chars |-> IF slash THEN RemoveSuffixSlash(Chars(name)) ELSE Chars(name),
     fs_type |-> GetFsType(IF slash THEN FLAG_DIR ELSE fs_type, children),
     children |-> children]

\* A pattern of an implementor that overrides matches_null to return True
\* and matches no path segment itself.
NullPattern ==
    [kind |-> "NullPattern", chars |-> <<>>,
     fs_type |-> GetFsType({}, <<>>), children |-> <<>>]

\* path.parts of an absolute path: the root, then the names.
Parts(p) == <<"/">> \o p

\* AbstractPattern.is_final_component
IsFinalComponent(path) == Len(path) = 1

\* AbstractPattern.current_component
CurrentComponent(path) == Chars(path[1])

\* AbstractPattern.get_subpath
GetSubpath(path) == Tail(path)

\* FsTypeFlag.from_path raises (assert_not_exotic) for such a path.
Exotic(p) == ~IsFile(p) /\ ~IsDir(p)

\* FsTypeFlag.from_path for a path that is not exotic
FlagFromPath(p) == IF IsFile(p) THEN FLAG_FILE ELSE FLAG_DIR

\* matches_self: SingleNamePattern.matches_self, and the implementor's
\* pattern that matches nothing.
MatchesSelf(node, path) ==
    node.kind = "SingleNamePattern" /\ CurrentComponent(path) = node.chars

\* matches_null: False unless overridden.
MatchesNull(node) == node.kind = "NullPattern"

\* AbstractPattern._any_child_matches_null
AnyChildMatchesNull(node) ==
    \E k \in 1..Len(node.children) : MatchesNull(node.children[k])

\* AbstractPattern.has_allowed_fs_type: "error" when from_path raises.
HasAllowedFsType(node, p) ==
    IF Exotic(p) THEN "error"
    ELSE IF node.fs_type \cap FlagFromPath(p) # {} THEN "true" ELSE "false"

\* AbstractPattern._is_valid_for_current_type
IsValidForCurrentType(node, path, full_path) ==
    IF ~IsFinalComponent(path)
    THEN (IF node.fs_type \cap FLAG_DIR # {} THEN "true" ELSE "false")
    ELSE HasAllowedFsType(node, full_path)

\* _subpatterns_match_final that forgets the children.
SubpatternsMatchFinal_NoChildren(node, full_path) == HasAllowedFsType(node, full_path)

\* AbstractPattern._subpatterns_match_final
SubpatternsMatchFinal(node, full_path) ==
    LET allowed == HasAllowedFsType(node, full_path) IN
    IF allowed # "true" THEN allowed
    ELSE IF Len(node.children) = 0 \/ AnyChildMatchesNull(node) THEN "true"
    ELSE "false"

RECURSIVE MatchesSubpath(_, _, _)
RECURSIVE ChildrenMatch(_, _, _, _)

\* The loop of AbstractPattern._subpatterns_match_path over the children
\* from index k on: the first child that matches ends it, and so does the
\* first that raises.
ChildrenMatch(children, k, subpath, full_path) ==
    IF k > Len(children) THEN "false"
    ELSE LET r == MatchesSubpath(children[k], subpath, full_path) IN
         IF r = "false" THEN ChildrenMatch(children, k + 1, subpath, full_path)
         ELSE r

\* AbstractPattern._subpatterns_match_path
SubpatternsMatchPath(node, path, full_path) ==
    IF Len(node.children) = 0 THEN "true"
    ELSE ChildrenMatch(node.children, 1, GetSubpath(path), full_path)

\* AbstractPattern._subpatterns_match
SubpatternsMatch(node, path, full_path) ==
    IF IsFinalComponent(path) THEN SubpatternsMatchFinal(node, full_path)
    ELSE SubpatternsMatchPath(node, path, full_path)

\* AbstractPattern.matches_subpath: "true", "false", or "error" when an
\* assertion fails on the way.
MatchesSubpath(node, path, full_path) ==
    LET valid == IsValidForCurrentType(node, path, full_path) IN
    IF valid # "true" THEN valid
    ELSE IF ~MatchesSelf(node, path) THEN "false"
    ELSE SubpatternsMatch(node, path, full_path)

\* AbstractPattern.match of an absolute path
MatchPattern(node, p) == MatchesSubpath(node, Parts(p), p)

\* The non-empty sequences of at most n elements of a set.
SeqsUpTo(set, n) == UNION {[1..k -> set] : k \in 1..n}

\* Patterns for the third and the second level of a path below the root.
LowPatterns ==
    { SingleNamePattern("c.txt", {}, <<>>),
      SingleNamePattern("c.txt", FLAG_DIR, <<>>),
      SingleNamePattern("x", {}, <<>>),
      NullPattern }

MidPatterns ==
    { SingleNamePattern("a.txt", {}, <<>>),
      SingleNamePattern("subdir/", {}, <<>>),
      SingleNamePattern("subdir", FLAG_FILE, <<>>),
      SingleNamePattern("node_modules", {}, <<>>),
      NullPattern }
    \cup {SingleNamePattern("subdir", {}, <<low>>) : low \in LowPatterns}

\* Patterns for the first level: leaves, and nodes with up to MaxChildren
\* children.
TopPatterns ==
    {SingleNamePattern(name, fs_type, <<>>) :
        name \in {"data", "subdir"}, fs_type \in {{}, FLAG_FILE, FLAG_DIR}}
    \cup {SingleNamePattern(name, fs_type, ch) :
            name \in {"data", "subdir"}, fs_type \in {{}, FLAG_DIR},
            ch \in SeqsUpTo(MidPatterns, MaxChildren)}

\* The trees given to match: a node for the root '/' above one of them, the
\* root alone, the root above a null pattern, and a root whose name lost
\* its '/' to the trailing-slash rule.
PatternTrees ==
    {SingleNamePattern("/", FLAG_DIR, <<top>>) : top \in TopPatterns}
    \cup { SingleNamePattern("/", FLAG_DIR, <<>>),
           SingleNamePattern("/", FLAG_DIR, <<NullPattern>>),
           SingleNamePattern("/", {}, <<>>) }

InitMatch ==
    /\ fs \in FsVariants
    /\ pattern \in PatternTrees
    /\ match_path \in Universe
    /\ match_result = ""
    /\ pc = "match"
    /\ decls = <<>>
    /\ include_blocks = <<>>
    /\ exclude_blocks = <<>>
    /\ files = {}
    /\ dirs = {}
    /\ stats = NewStats
    /\ err = ""
    /\ blk = 1
    /\ excludes = <<>>
    /\ todo = <<>>
    /\ roots = {}
    /\ roots_left = {}
    /\ visited_dirs = {}
    /\ stack = <<>>
    /\ dirpath = <<>>
    /\ cur_files = {}
    /\ hist = NewHist({})
    /\ call = NoCall

\* pattern.match(match_path)
Match ==
    /\ pc = "match"
    /\ match_result' = MatchPattern(pattern, match_path)
    /\ pc' = "matched"
    /\ UNCHANGED <<fs, decls, include_blocks, exclude_blocks, files, dirs, stats,
                   err, blk, excludes, walkLocals, hist, call, pattern, match_path>>

NextMatch == Match

SpecMatch == InitMatch /\ [][NextMatch]_vars

-----------------------------------------------------------------------------
(* Properties *)

Range(seq) == {seq[k] : k \in DOMAIN seq}

\* walk() or _walk() of include block blk is running.
Walking == pc \in {"roots", "walk", "files"}

\* The walk of include block blk - 1 has returned.
WalkReturned == pc = "list" /\ blk > 1

\* Some file-exclude of the list returns true for file f.
FileExcludedBy(excl, f) ==
    \E e \in Range(excl) : IsFileExclude(e) /\ ShouldExclude(e, f)

\* The positions in decls where a run of includes begins, and the i-th one.
RunStarts ==
    {k \in 1..Len(decls) : IsInclude(decls[k]) /\ (k = 1 \/ IsExclude(decls[k - 1]))}
IncludeBlockStart(i) ==
    CHOOSE k \in RunStarts : Cardinality({j \in RunStarts : j <= k}) = i

\* The excludes declared after position k of decls, in order.
ExcludesDeclaredAfter(k) == SelectSeq(SubSeq(decls, k, Len(decls)), IsExclude)

\* The excludes declared before position k of decls.
ExcludesDeclaredBefore(k) == SelectSeq(SubSeq(decls, 1, k - 1), IsExclude)

\* C1: while include block i is walked, the excludes in use are exactly the
\* excludes declared after that block's first include, in order: a file the
\* walk tested is left out only if one of those excludes it, and is added
\* whenever none of them does, whatever the excludes declared before say.
C1_ExcludesAtOrAfter ==
    Walking =>
        LET after == ExcludesDeclaredAfter(IncludeBlockStart(blk)) IN
        /\ excludes = after
        /\ \A f \in hist.tested :
             /\ FileExcludedBy(after, f) => f \in hist.files0 \cup hist.root_files \/ f \notin files
             /\ ~FileExcludedBy(after, f) => f \in files

\* C1 witness: the second include block has added a file that an exclude
\* declared before it excludes.
C1_Witness ==
    /\ Walking
    /\ blk = 2
    /\ \E f \in hist.tested :
         /\ f \in files \ (hist.files0 \cup hist.root_files)
         /\ FileExcludedBy(ExcludesDeclaredBefore(IncludeBlockStart(blk)), f)

\* C2: a declaration list whose first declaration is an exclude is rejected
\* at construction: the engine holds no blocks, list_files never runs and
\* nothing is selected; every engine that runs starts with an include block.
C2_LeadingExcludeRejected ==
    /\ (pc # "init" /\ decls # <<>> /\ IsExclude(decls[1])) =>
          /\ pc = "rejected"
          /\ include_blocks = <<>>
          /\ exclude_blocks = <<>>
          /\ files = {}
          /\ dirs = {}
          /\ hist = NewHist({})
    /\ pc \notin {"init", "rejected"} =>
          /\ decls = <<>> \/ IsInclude(decls[1])
          /\ Len(exclude_blocks) <= Len(include_blocks)

\* C2 witness: a list that begins with an exclude and goes on with an include
\* has been rejected.
C2_Witness ==
    /\ pc = "rejected"
    /\ Len(decls) >= 2
    /\ IsExclude(decls[1])
    /\ IsInclude(decls[2])

\* C3: an include root that is a regular file is in the file set on account
\* of this walk only if no applicable file-exclude matches it.
C3_RootFileSubjectToExcludes ==
    \A p \in hist.root_files \ hist.files0 :
        p \in files => ~FileExcludedBy(excludes, p)

\* C4: a visited directory whose aggregated mode is below ExcludeAll is in
\* the directory set, and n_dirs counts the directory set.
C4_DirAddedBelowExcludeAll ==
    /\ \A dm \in hist.modes : dm[2] < ALL => dm[1] \in dirs
    /\ stats.n_dirs = Cardinality(dirs)

\* C5: when the aggregated mode of a visited directory is ExcludeContents or
\* ExcludeAll, its files are not listed, none of them is tested, none is in
\* the file set on account of this traversal, and os.walk does not enter
\* its subdirectories.
C5_PrunedDirContentsUntouched ==
    \A dm \in hist.modes :
        dm[2] >= CONTENTS =>
            /\ hist.listed[dm[1]] = 0
            /\ hist.descended[dm[1]] = 0
            /\ \A q \in Entries(dm[1]) :
                 /\ q \notin hist.tested
                 /\ q \in files => q \in hist.files0 \cup hist.root_files
                 /\ hist.yielded[q] > 0 => \E r \in roots : Resolve(r) = q

\* C5 witness: a run has ended after a walk that met a non-empty directory
\* with mode ExcludeContents and another with mode ExcludeAll.
C5_Witness ==
    /\ pc = "done"
    /\ \E dm \in hist.modes : dm[2] = CONTENTS /\ Entries(dm[1]) # {}
    /\ \E dm \in hist.modes : dm[2] = ALL /\ Entries(dm[1]) # {}

\* The mode C6 expects of a NameExclude rule that excludes a directory.
RuleMode(e) == IF ShouldKeepSelf(e) THEN CONTENTS ELSE ALL

\* C6: when a NameExclude rule in use excludes a visited directory, the walk
\* goes on with an aggregated mode of at least the rule's mode (ExcludeAll,
\* or ExcludeContents with keep_self) for that directory.
C6_NameExcludePrunes ==
    \A d \in Universe :
        \A e \in Range(excludes) :
            (hist.visits[d] > 0 /\ e.kind = "NameExclude" /\ IsDir(d) /\ ShouldExclude(e, d)) =>
                /\ err # "TypeError"
                /\ \E dm \in hist.modes : dm[1] = d /\ dm[2] >= RuleMode(e)

\* The sequences with the same elements as seq, each once.
Orderings(seq) ==
    {o \in [DOMAIN seq -> DOMAIN seq] : \A k \in DOMAIN seq : \E j \in DOMAIN seq : o[j] = k}

MaxOf(ms) == CHOOSE m \in ms : \A n \in ms : n <= m

\* C7: for the excludes in use and every visited directory, get_exclude_mode
\* returns the maximum of the modes of the dir-excludes (NO without any), and
\* returns the same for every permutation of the excludes.
C7_ModeIsMaximum ==
    \A d \in visited_dirs :
        LET got == GetExcludeMode(excludes, d)
            modes == {NO} \cup {ExcludeModeFor(e, d) : e \in {x \in Range(excludes) : IsDirExclude(x)}}
        IN /\ ~got.raised
           /\ got.result = MaxOf(modes)
           /\ \A o \in Orderings(excludes) :
                GetExcludeMode([k \in DOMAIN excludes |-> excludes[o[k]]], d) = got

\* The files os.walk listed in the directories this walk did not prune.
ListedFiles == UNION {WalkFiles(dm[1]) : dm \in {x \in hist.modes : x[2] = NO}}

\* C8: after a walk, the file set is what it was before plus the root files
\* plus exactly the files of the listed directories that no file-exclude in
\* use excludes; n_files is its size and bytes_to_copy_ls the sum of the
\* sizes. /data with a.txt (10), b.tmp (5), subdir/c.txt (20) and a .tmp
\* extension exclude gives {a.txt, subdir/c.txt}, 2 files, 30 bytes.
C8_FilesNotExcludedAreSelected ==
    /\ WalkReturned =>
          /\ files = hist.files0 \cup hist.root_files
                     \cup {f \in ListedFiles : ~FileExcludedBy(excludes, f)}
          /\ stats.n_files = Cardinality(files)
          /\ stats.bytes_to_copy_ls = SumSizes(files)
    /\ (pc = "done" /\ fs = FsData
        /\ decls = <<Include(<<D>>), FileExtExclude({".tmp"})>>) =>
          /\ files = {A, C}
          /\ stats.n_files = 2
          /\ stats.bytes_to_copy_ls = 30

\* C8 witness: the scenario has run to its end.
C8_Witness ==
    /\ pc = "done"
    /\ fs = FsData
    /\ decls = <<Include(<<D>>), FileExtExclude({".tmp"})>>
    /\ files = {A, C}

\* C9: within one walk, however often os.walk yields a directory, its
\* exclude mode is computed at most once, its files are listed at most once
\* and its subdirectories are entered at most once; a directory that was
\* yielded was visited.
C9_VisitedOnce ==
    \A d \in Universe :
        /\ hist.visits[d] <= 1
        /\ hist.listed[d] <= 1
        /\ hist.descended[d] <= 1
        /\ hist.yielded[d] > 0 => hist.visits[d] = 1 /\ d \in visited_dirs

\* C9 witness: a directory below one root that is also a root has been
\* yielded twice, and the walk has returned.
C9_Witness ==
    /\ WalkReturned
    /\ \E d \in Universe : hist.yielded[d] >= 2 /\ hist.visits[d] = 1 /\ hist.listed[d] = 1

\* A regular file or a directory, not a link, fifo or the like.
Regular(p) == fs[p].kind \in {"file", "dir"}

\* C10: every include root taken and every selected path is a regular file
\* or a directory, and os.walk gets past a listed directory only if all its
\* entries are.
C10_ExoticAborts ==
    /\ \A r \in roots : Regular(r)
    /\ \A p \in files \cup dirs : Regular(p)
    /\ \A d \in Universe : hist.descended[d] > 0 => \A q \in Entries(d) : Regular(q)

\* C11: a call of add_file with a path that is already in the file set
\* leaves the file set and its size, n_files, bytes_to_copy_ls and
\* bytes_to_copy_du as they were before the call.
C11_AddFileIdempotent ==
    (call.op = "add_file" /\ call.was_in) =>
        /\ Cardinality(files) = Cardinality(call.files)
        /\ files = call.files
        /\ stats.n_files = call.stats.n_files
        /\ stats.bytes_to_copy_ls = call.stats.bytes_to_copy_ls
        /\ stats.bytes_to_copy_du = call.stats.bytes_to_copy_du

\* C11 witness: add_file has been called with a path of non-zero size that
\* was already in the file set.
C11_Witness ==
    /\ call.op = "add_file"
    /\ call.was_in
    /\ call.file \in files
    /\ StSize(call.file) > 0

\* The node accepts the type of segment k of the n segments of the path:
\* Directory before the last, the type of the path itself at the last.
TypeAccepts(node, k, n, full_path) ==
    IF k < n THEN "dir" \in node.fs_type
    ELSE \/ IsFile(full_path) /\ "file" \in node.fs_type
         \/ IsDir(full_path) /\ "dir" \in node.fs_type

\* Some child of the node matches the null terminal.
HasNullChild(node) == \E i \in DOMAIN node.children : MatchesNull(node.children[i])

\* A chain of nodes from `node` at segment k down to the last segment: each
\* accepts the type of its segment and matches it, and the node at the last
\* segment has no children or a child that matches null.
RECURSIVE ChainToLeaf(_, _, _, _)
ChainToLeaf(node, parts, k, full_path) ==
    /\ TypeAccepts(node, k, Len(parts), full_path)
    /\ MatchesSelf(node, SubSeq(parts, k, Len(parts)))
    /\ IF k = Len(parts)
       THEN Len(node.children) = 0 \/ HasNullChild(node)
       ELSE \E i \in DOMAIN node.children :
                ChainToLeaf(node.children[i], parts, k + 1, full_path)

\* The same, where the chain may also end before the last segment at a node
\* without children.
RECURSIVE ChainOrOpenEnd(_, _, _, _)
ChainOrOpenEnd(node, parts, k, full_path) ==
    /\ TypeAccepts(node, k, Len(parts), full_path)
    /\ MatchesSelf(node, SubSeq(parts, k, Len(parts)))
    /\ IF k = Len(parts)
       THEN Len(node.children) = 0 \/ HasNullChild(node)
       ELSE \/ Len(node.children) = 0
            \/ \E i \in DOMAIN node.children :
                 ChainOrOpenEnd(node.children[i], parts, k + 1, full_path)

\* C12 as stated: match(path) is true if and only if every segment of the
\* path, from the root to the last, is accepted by the pattern node at its
\* level, and the node at the last segment has no children or a child that
\* matches null.
C12_MatchIffEverySegment ==
    pc = "matched" =>
        (match_result = "true" <=> ChainToLeaf(pattern, Parts(match_path), 1, match_path))

\* C12 amended: for a path that is a file or a directory, match(path) is
\* true if and only if there is such a chain to the last segment or a chain
\* that ends earlier at a node without children; for any other path match is
\* true only through a chain that ends earlier.
C12_MatchIffChainOrOpenEnd ==
    pc = "matched" =>
        /\ match_result = "true" =>
              ChainOrOpenEnd(pattern, Parts(match_path), 1, match_path)
        /\ ~Exotic(match_path) =>
              /\ match_result \in {"true", "false"}
              /\ ChainOrOpenEnd(pattern, Parts(match_path), 1, match_path) =>
                    match_result = "true"

\* C12 witness: match returned true for a file three levels down through a
\* node without children above the last segment.
C12_Witness ==
    /\ pc = "matched"
    /\ match_result = "true"
    /\ match_path = C
    /\ Len(pattern.children) > 0
    /\ ~ChainToLeaf(pattern, Parts(match_path), 1, match_path)

RECURSIVE SumCached(_, _, _)
SumCached(cache, ps, k) ==
    IF ps = {} THEN 0
    ELSE LET p == CHOOSE q \in ps : TRUE
         IN cache[p][k] + SumCached(cache, ps \ {p}, k)

\* C13: after any sequence of add_file and remove_file calls n_files is the
\* number of paths in files, every path in files has cached sizes (those of
\* the file), bytes_to_copy_ls and bytes_to_copy_du are the sums of the
\* cached sizes of the paths in files, and no counter is negative.
C13_StatsMatchFiles ==
    /\ stats.n_files = Cardinality(files)
    /\ files \subseteq DOMAIN stats.size_cache
    /\ \A p \in files : stats.size_cache[p] = <<StSize(p), DiskUsed(p)>>
    /\ stats.bytes_to_copy_ls = SumCached(stats.size_cache, files, 1)
    /\ stats.bytes_to_copy_du = SumCached(stats.size_cache, files, 2)
    /\ stats.n_files >= 0
    /\ stats.bytes_to_copy_ls >= 0
    /\ stats.bytes_to_copy_du >= 0

\* C13 witness: remove_file has just been called with a path that had been
\* added and removed before, while other files are still selected.
C13_Witness ==
    /\ call.op = "remove_file"
    /\ ~call.was_in
    /\ files # {}
    /\ call.file \in DOMAIN stats.size_cache
    /\ stats.bytes_to_copy_ls > 0

====
